---- MODULE Spec2Model ----
(***************************************************************************)
(* Model of hw/virtio/virtio-video-util.c: the scatter-gather copy engine  *)
(* (virtio_video_memcpy, virtio_video_memcpy_r, virtio_video_memcpy_byline)*)
(* and the deferred command / event completion pipeline.                   *)
(*                                                                         *)
(* uint32_t values are held as their two's-complement representatives:     *)
(* a negative integer -d stands for 2^32 - d.  Addition and subtraction    *)
(* then agree with arithmetic modulo 2^32, and the comparisons U32Lt ..    *)
(* U32Ge order the representatives as unsigned numbers.                    *)
(***************************************************************************)
EXTENDS Integers, Sequences, FiniteSets

VARIABLES res, mem, wild, wrote, call,
          inflight_cmd, elems, bh, refcnt, owner, cmd_vq, event_vq,
          event_queue, event_sent, calls, crashed, works, mutex,
          event_elem, resource_list, resources, mem_type

copyVars == <<res, mem, wild, wrote, call>>
pipeVars == <<inflight_cmd, elems, bh, refcnt, owner, cmd_vq, event_vq,
              event_queue, event_sent, calls, crashed, works, mutex,
              event_elem>>
resVars == <<resource_list, resources, mem_type>>
vars == <<res, mem, wild, wrote, call,
          inflight_cmd, elems, bh, refcnt, owner, cmd_vq, event_vq,
          event_queue, event_sent, calls, crashed, works, mutex,
          event_elem, resource_list, resources, mem_type>>

(***************************************************************************)
(* Bounds of the model.                                                    *)
(***************************************************************************)
MaxSlices == 3
MaxSliceLen == 2
MaxOffset == 2
MaxSize == 5
MaxWidth == 2
MaxPad == 1
MaxRows == 3
BlankBytes == 1
MaxCmds == 2
MaxCalls == 2
MaxEventBufs == 1
MaxResources == 3

(***************************************************************************)
(* Unsigned 32 bit comparison on two's-complement representatives.         *)
(***************************************************************************)
U32Lt(a, b) ==
    IF a >= 0
    THEN (b < 0) \/ (a < b)
    ELSE (b < 0) /\ (a < b)

U32Le(a, b) == (a = b) \/ U32Lt(a, b)

U32Gt(a, b) == U32Lt(b, a)

U32Ge(a, b) == U32Le(b, a)

(***************************************************************************)
(* Helpers on sequences.                                                   *)
(***************************************************************************)
RECURSIVE SeqSum(_)
SeqSum(s) == IF s = <<>> THEN 0 ELSE Head(s) + SeqSum(Tail(s))

RECURSIVE SeqsUpTo(_, _)
SeqsUpTo(n, S) ==
    IF n = 0
    THEN {<<>>}
    ELSE LET shorter == SeqsUpTo(n - 1, S)
         IN  shorter \cup {Append(s, x) : s \in shorter, x \in S}

(***************************************************************************)
(* Slice store.  A resource has two planes (index 0 and 1; plane p is the  *)
(* p+1-th element of the tuples).  slices[p][j] is the page.len of slice j;*)
(* the bytes of plane p are kept as one sequence mem[p], slice j occupying *)
(* the positions SliceBase + 1 .. SliceBase + page.len.  A copy that       *)
(* leaves its slice is a write outside the mapping and recorded in wild.   *)
(***************************************************************************)
Planes == {0, 1}

num_entries(r, p) == Len(r.slices[p + 1])

page_len(r, p, j) == r.slices[p + 1][j + 1]

SliceBase(r, p, j) == SeqSum(SubSeq(r.slices[p + 1], 1, j))

PlaneLen(r, p) == SeqSum(r.slices[p + 1])

\* the bytes a fresh resource holds: a sentinel pattern naming plane and position
Sentinel(p, pos) == 100 * (p + 1) + pos

FreshMem(r) == [q \in 1..2 |-> [pos \in 1..PlaneLen(r, q - 1) |-> Sentinel(q - 1, pos)]]

\* host source memory: the byte at address a is a + 1; the source buffer of
\* a write starts at address 0
SrcByte(a) == a + 1

\* a host destination buffer before a read: no byte of it is a source byte
FreshDst(size) == [i \in 1..size |-> 0]

\* MEMCPY_S(slice->page.base + diff, src + off, n, n) into slice j of plane p
StoreSlice(m, r, p, j, diff, off, n) ==
    IF n = 0 \/ diff < 0
    THEN m
    ELSE [m EXCEPT ![p + 1] =
            [pos \in 1..Len(m[p + 1]) |->
                LET t == pos - SliceBase(r, p, j) - diff
                IN  IF t >= 1 /\ U32Le(t, n) /\ diff + t <= page_len(r, p, j)
                    THEN SrcByte(off + t - 1)
                    ELSE m[p + 1][pos]]]

\* whether that MEMCPY_S writes outside the slice's mapping
StoreWild(r, p, j, diff, n) ==
    n # 0 /\ (n < 0 \/ diff < 0 \/ diff + n > page_len(r, p, j))

\* MEMCPY_S(dst + dpos, slice->page.base + diff, n, n) out of slice j of plane p
LoadSlice(d, m, r, p, j, diff, dpos, n) ==
    IF n <= 0 \/ diff < 0
    THEN d
    ELSE [i \in 1..Len(d) |->
            IF i > dpos /\ i <= dpos + n
            THEN m[p + 1][SliceBase(r, p, j) + diff + (i - dpos)]
            ELSE d[i]]

(***************************************************************************)
(* virtio_video_memcpy_perplane                                            *)
(***************************************************************************)
PerplaneExhaustedTolerant(size) == 0

PerplaneExhausted(size) == IF U32Gt(size, 0) THEN -1 ELSE 0

RECURSIVE PerplaneLoop(_, _, _, _, _, _)
PerplaneLoop(r, idx, i, size, off, m) ==
    IF i >= num_entries(r, idx)
    THEN [ret |-> PerplaneExhausted(size), mem |-> m, wild |-> FALSE]
    ELSE LET len == page_len(r, idx, i)
         IN  IF U32Le(size, len)
             THEN [ret |-> 0, mem |-> StoreSlice(m, r, idx, i, 0, off, size),
                   wild |-> FALSE]
             ELSE PerplaneLoop(r, idx, i + 1, size - len, off + len,
                               StoreSlice(m, r, idx, i, 0, off, len))

\* a write that undoes its copies when it fails
virtio_video_memcpy_perplane_atomic(r, m, idx, size) ==
    LET o == PerplaneLoop(r, idx, 0, size, 0, m)
    IN  IF o.ret = 0 THEN o ELSE [o EXCEPT !.mem = m]

virtio_video_memcpy_perplane(r, m, idx, size) ==
    PerplaneLoop(r, idx, 0, size, 0, m)

(***************************************************************************)
(* virtio_video_memcpy_singlebuffer.  The fast path copies to              *)
(* remapped_base, the contiguous mapping of the slices of plane 0.         *)
(***************************************************************************)
RemappedStore(m, r, size) ==
    [m EXCEPT ![1] =
        [pos \in 1..Len(m[1]) |->
            IF pos <= size /\ pos <= r.remapped_size
            THEN SrcByte(pos - 1)
            ELSE m[1][pos]]]

RECURSIVE SinglebufferLoop(_, _, _, _, _, _, _, _)
SinglebufferLoop(r, i, base, begin, end, size, off, m) ==
    IF i >= num_entries(r, 0)
    THEN [ret |-> IF U32Gt(size, 0) THEN -1 ELSE 0, mem |-> m, wild |-> FALSE]
    ELSE LET slen == page_len(r, 0, i)
         IN  IF U32Ge(begin, base + slen)
             THEN SinglebufferLoop(r, i + 1, base + slen, begin, end, size, off, m)
             ELSE LET diff == begin - base
                      len  == slen - diff
                  IN  IF U32Le(end, base + slen)
                      THEN [ret |-> 0,
                            mem |-> StoreSlice(m, r, 0, i, diff, off, size),
                            wild |-> StoreWild(r, 0, i, diff, size)]
                      ELSE SinglebufferLoop(r, i + 1, base + slen, begin + len,
                                            end, size - len, off + len,
                                            StoreSlice(m, r, 0, i, diff, off, len))

virtio_video_memcpy_singlebuffer(r, m, idx, size) ==
    LET begin == r.plane_offsets[idx + 1]
        end   == begin + size
    IN  IF r.remapped_base
        THEN [ret |-> 0, mem |-> RemappedStore(m, r, size),
              wild |-> size > r.remapped_size]
        ELSE SinglebufferLoop(r, 0, 0, begin, end, size, 0, m)

virtio_video_memcpy(r, m, idx, size) ==
    CASE r.planes_layout = "SINGLE_BUFFER" ->
            virtio_video_memcpy_singlebuffer(r, m, idx, size)
      [] r.planes_layout = "PER_PLANE" ->
            virtio_video_memcpy_perplane(r, m, idx, size)
      [] OTHER -> [ret |-> -1, mem |-> m, wild |-> FALSE]

(***************************************************************************)
(* virtio_video_memcpy_singlebuffer_r                                      *)
(***************************************************************************)
RECURSIVE SinglebufferRLoop(_, _, _, _, _, _, _, _)
SinglebufferRLoop(r, m, i, pos, begin, size, dpos, d) ==
    IF i >= num_entries(r, 0)
    THEN [ret |-> 0, dst |-> d]
    ELSE LET slen == page_len(r, 0, i)
         IN  IF U32Ge(begin, pos + slen)
             THEN SinglebufferRLoop(r, m, i + 1, pos + slen, begin, size, dpos, d)
             ELSE LET diff    == begin - pos
                      cur_len == IF U32Gt(size, slen - diff) THEN slen - diff ELSE size
                  IN  SinglebufferRLoop(r, m, i + 1, pos + slen, begin + cur_len,
                                        size - cur_len, dpos + cur_len,
                                        LoadSlice(d, m, r, 0, i, diff, dpos, cur_len))

virtio_video_memcpy_singlebuffer_r(r, m, idx, size) ==
    SinglebufferRLoop(r, m, 0, 0, r.plane_offsets[idx + 1], size, 0, FreshDst(size))

(***************************************************************************)
(* virtio_video_memcpy_perplane_r                                          *)
(***************************************************************************)
RECURSIVE PerplaneRLoop(_, _, _, _, _, _, _)
PerplaneRLoop(r, m, idx, i, size, dst_pos, d) ==
    IF i >= num_entries(r, idx)
    THEN [ret |-> IF U32Gt(size, 0) THEN -1 ELSE 0, dst |-> d]
    ELSE LET slen    == page_len(r, idx, i)
             cur_len == IF U32Ge(size, slen) THEN slen ELSE size
         IN  PerplaneRLoop(r, m, idx, i + 1, size - cur_len, dst_pos + cur_len,
                           LoadSlice(d, m, r, idx, i, 0, dst_pos, cur_len))

virtio_video_memcpy_perplane_r_plane0(r, m, idx, size) ==
    PerplaneRLoop(r, m, 0, 0, size, 0, FreshDst(size))

virtio_video_memcpy_perplane_r(r, m, idx, size) ==
    PerplaneRLoop(r, m, idx, 0, size, 0, FreshDst(size))

virtio_video_memcpy_r(r, m, idx, size) ==
    CASE r.planes_layout = "SINGLE_BUFFER" ->
            virtio_video_memcpy_singlebuffer_r(r, m, idx, size)
      [] r.planes_layout = "PER_PLANE" ->
            virtio_video_memcpy_perplane_r(r, m, idx, size)
      [] OTHER -> [ret |-> -1, dst |-> FreshDst(size)]

(***************************************************************************)
(* virtio_video_memdump_singlebuffer, virtio_video_memdump_perplane        *)
(***************************************************************************)
RECURSIVE SinglebufferDumpLoop(_, _, _, _, _, _, _, _, _)
SinglebufferDumpLoop(r, m, i, base, begin, end, size, dpos, d) ==
    IF i >= num_entries(r, 0)
    THEN [ret |-> IF U32Gt(size, 0) THEN -1 ELSE 0, dst |-> d]
    ELSE LET slen == page_len(r, 0, i)
         IN  IF U32Ge(begin, base + slen)
             THEN SinglebufferDumpLoop(r, m, i + 1, base + slen, begin, end,
                                       size, dpos, d)
             ELSE LET diff == begin - base
                      len  == slen - diff
                  IN  IF U32Le(end, base + slen)
                      THEN [ret |-> 0,
                            dst |-> LoadSlice(d, m, r, 0, i, diff, dpos, size)]
                      ELSE SinglebufferDumpLoop(r, m, i + 1, base + slen,
                                                begin + len, end, size - len,
                                                dpos + len,
                                                LoadSlice(d, m, r, 0, i, diff, dpos, len))

virtio_video_memdump_singlebuffer(r, m, idx, size) ==
    LET begin == r.plane_offsets[idx + 1]
    IN  SinglebufferDumpLoop(r, m, 0, 0, begin, begin + size, size, 0,
                             FreshDst(size))

RECURSIVE PerplaneDumpLoop(_, _, _, _, _, _, _)
PerplaneDumpLoop(r, m, idx, i, size, dpos, d) ==
    IF i >= num_entries(r, idx)
    THEN [ret |-> 0, dst |-> d]
    ELSE LET slen == page_len(r, idx, i)
         IN  IF U32Le(size, slen)
             THEN [ret |-> 0, dst |-> LoadSlice(d, m, r, idx, i, 0, dpos, size)]
             ELSE PerplaneDumpLoop(r, m, idx, i + 1, size - slen, dpos + slen,
                                   LoadSlice(d, m, r, idx, i, 0, dpos, slen))

\* the dump with the "return -1" of line 696 in force
virtio_video_memdump_perplane_strict(r, m, idx, size) ==
    PerplaneRLoop(r, m, idx, 0, size, 0, FreshDst(size))

virtio_video_memdump_perplane(r, m, idx, size) ==
    PerplaneDumpLoop(r, m, idx, 0, size, 0, FreshDst(size))

virtio_video_memdump(r, m, idx, size) ==
    CASE r.planes_layout = "SINGLE_BUFFER" ->
            virtio_video_memdump_singlebuffer(r, m, idx, size)
      [] r.planes_layout = "PER_PLANE" ->
            virtio_video_memdump_perplane(r, m, idx, size)
      [] OTHER -> [ret |-> -1, dst |-> FreshDst(size)]

(***************************************************************************)
(* virtio_video_memcpy_byline.  The loop state st holds the locals of the  *)
(* function.  A slice index page >= num_entries[idx] addresses memory      *)
(* behind the slice array: its page.len is whatever lies there (g) and a   *)
(* copy to its page.base is a write outside every mapping.                 *)
(***************************************************************************)
SliceInRange(r, idx, page) == page >= 0 /\ page < num_entries(r, idx)

SliceLenAt(r, idx, page, g) ==
    IF SliceInRange(r, idx, page) THEN page_len(r, idx, page) ELSE g

StoreAt(m, r, idx, page, diff, src, n) ==
    IF SliceInRange(r, idx, page)
    THEN StoreSlice(m, r, idx, page, diff, src, n)
    ELSE m

StoreAtWild(r, idx, page, diff, n) ==
    IF SliceInRange(r, idx, page)
    THEN StoreWild(r, idx, page, diff, n)
    ELSE n # 0

\* while (margin > 0 && page < res->num_entries[0]) { ... }
RECURSIVE BylineMargin(_, _, _, _)
BylineMargin(r, g, a, st) ==
    IF ~(U32Gt(st.margin, 0) /\ st.page < num_entries(r, 0))
    THEN st
    ELSE LET page == st.page + 1
             len  == SliceLenAt(r, a.idx, page, g)
             oob  == st.oob \/ ~SliceInRange(r, a.idx, page)
         IN  IF U32Le(st.margin, len)
             THEN BylineMargin(r, g, a,
                    [st EXCEPT !.page = page, !.oob = oob,
                       !.mem = StoreAt(st.mem, r, a.idx, page, 0, st.src, st.margin),
                       !.wild = st.wild \/ StoreAtWild(r, a.idx, page, 0, st.margin),
                       !.diff = st.margin,
                       !.len = len - st.margin,
                       !.src = st.src + (a.pitch - a.width + st.margin),
                       !.size = st.size - st.margin,
                       !.margin = 0])
             ELSE BylineMargin(r, g, a,
                    [st EXCEPT !.page = page, !.oob = oob,
                       !.mem = StoreAt(st.mem, r, a.idx, page, 0, st.src, len),
                       !.wild = st.wild \/ StoreAtWild(r, a.idx, page, 0, len),
                       !.len = len,
                       !.src = st.src + len,
                       !.size = st.size - len,
                       !.diff = 0,
                       !.margin = st.margin - len])

\* for (i = 0; i < cp_height && page < res->num_entries[0]; i++) { ... }
RECURSIVE BylineRows(_, _, _, _)
BylineRows(r, g, a, st) ==
    IF ~(U32Lt(st.i, a.cp_height) /\ st.page < num_entries(r, 0))
    THEN st
    ELSE LET src == IF st.i = a.height THEN a.src_uv ELSE st.src
         IN  IF U32Le(a.width, st.len)
             THEN BylineRows(r, g, a,
                    [st EXCEPT !.i = st.i + 1,
                       !.mem = StoreAt(st.mem, r, a.idx, st.page, st.diff, src, a.width),
                       !.wild = st.wild \/
                                StoreAtWild(r, a.idx, st.page, st.diff, a.width),
                       !.src = src + a.pitch,
                       !.diff = st.diff + a.width,
                       !.size = st.size - a.width,
                       !.len = st.len - a.width])
             ELSE LET split ==
                        [st EXCEPT
                           !.mem = StoreAt(st.mem, r, a.idx, st.page, st.diff, src, st.len),
                           !.wild = st.wild \/
                                    StoreAtWild(r, a.idx, st.page, st.diff, st.len),
                           !.size = st.size - st.len,
                           !.margin = a.width - st.len,
                           !.src = src + st.len,
                           !.diff = st.diff + st.len]
                      after == BylineMargin(r, g, a, split)
                  IN  BylineRows(r, g, a, [after EXCEPT !.i = @ + 1])

BylineResult(st) ==
    [ret |-> IF U32Gt(st.size, 0) THEN -1 ELSE 0,
     mem |-> st.mem, wild |-> st.wild, oob |-> st.oob,
     rows |-> st.i, left |-> st.size]

\* a: [idx, src_begin, src_uv, width, height, pitch, cp_size, cp_height]
virtio_video_memcpy_byline(r, m, a, g) ==
    LET begin == r.plane_offsets[a.idx + 1]
        diff  == begin - 0
        st0   == [i |-> 0, page |-> 0, diff |-> diff,
                  len |-> SliceLenAt(r, a.idx, 0, g) - diff,
                  size |-> a.cp_size, margin |-> 0, src |-> a.src_begin,
                  mem |-> m, wild |-> FALSE,
                  oob |-> ~SliceInRange(r, a.idx, 0)]
    IN  BylineResult(BylineRows(r, g, a, st0))

(***************************************************************************)
(* virtio_video_memcpy_NV12.  a holds the arguments: the addresses Y and   *)
(* UV of the two source buffers and their sizes.  src is the address the   *)
(* next byte is copied from.                                               *)
(***************************************************************************)
\* if (size >= len) { ... } else { ... }
NV12First(r, i, st) ==
    IF U32Ge(st.size, st.len)
    THEN [st EXCEPT !.mem = StoreSlice(st.mem, r, 0, i, st.diff, st.src, st.len),
                    !.wild = @ \/ StoreWild(r, 0, i, st.diff, st.len),
                    !.begin = st.begin + st.len,
                    !.size = st.size - st.len,
                    !.src = st.src + st.len,
                    !.len = 0]
    ELSE [st EXCEPT !.mem = StoreSlice(st.mem, r, 0, i, st.diff, st.src, st.size),
                    !.wild = @ \/ StoreWild(r, 0, i, st.diff, st.size),
                    !.begin = st.begin + st.size,
                    !.src = st.src + st.size,
                    !.len = st.len - st.size,
                    !.diff = st.diff + st.size,
                    !.size = 0]

\* if (size == 0 && src <= UV) { ... }
NV12Second(r, a, i, st) ==
    IF st.size = 0 /\ st.src <= a.UV
    THEN [st EXCEPT !.mem = StoreSlice(st.mem, r, 0, i, st.diff, a.UV, st.len),
                    !.wild = @ \/ StoreWild(r, 0, i, st.diff, st.len),
                    !.begin = st.begin + st.len,
                    !.size = a.size_UV - st.len,
                    !.src = a.UV + st.len]
    ELSE st

RECURSIVE NV12Loop(_, _, _, _, _)
NV12Loop(r, a, i, base, st) ==
    IF i >= num_entries(r, 0)
    THEN [ret |-> IF U32Gt(st.size, 0) THEN -1 ELSE 0,
          mem |-> st.mem, wild |-> st.wild]
    ELSE LET slen == page_len(r, 0, i)
         IN  IF U32Ge(st.begin, base + slen)
             THEN NV12Loop(r, a, i + 1, base + slen, st)
             ELSE LET diff == st.begin - base
                      len  == slen - diff
                  IN  IF U32Le(st.end, base + slen)
                      THEN [ret |-> 0,
                            mem |-> StoreSlice(st.mem, r, 0, i, diff, st.src, st.size),
                            wild |-> st.wild \/ StoreWild(r, 0, i, diff, st.size)]
                      ELSE NV12Loop(r, a, i + 1, base + slen,
                              NV12Second(r, a, i,
                                 NV12First(r, i, [st EXCEPT !.diff = diff,
                                                            !.len = len])))

\* a: [Y, size_Y, UV, size_UV]
virtio_video_memcpy_NV12(r, m, a) ==
    LET begin == r.plane_offsets[1]
    IN  NV12Loop(r, a, 0, 0,
                 [begin |-> begin, end |-> begin + a.size_Y + a.size_UV,
                  diff |-> 0, len |-> 0, size |-> a.size_Y, src |-> a.Y,
                  mem |-> m, wild |-> FALSE])

(***************************************************************************)
(* The resources the copy engine is called on.  SINGLE_BUFFER: all planes  *)
(* share the slices of plane 0 and are found by plane_offsets; the         *)
(* resource may have the contiguous remapping of those slices.  PER_PLANE: *)
(* every plane has slices of its own.  MaxSlices bounds the slices of one  *)
(* resource.                                                               *)
(***************************************************************************)
SliceLens == SeqsUpTo(MaxSlices, 1..MaxSliceLen)

SingleBufferResources ==
    { [planes_layout |-> "SINGLE_BUFFER", slices |-> <<s0, <<>>>>,
       plane_offsets |-> <<k0, k1>>, remapped_base |-> rb,
       remapped_size |-> IF rb THEN SeqSum(s0) ELSE 0] :
         s0 \in SliceLens \ {<<>>}, k0 \in 0..MaxOffset, k1 \in 0..MaxOffset,
         rb \in BOOLEAN }

SlicePairs ==
    { p \in SliceLens \X SliceLens : Len(p[1]) + Len(p[2]) <= MaxSlices }

PerPlaneResources ==
    { [planes_layout |-> "PER_PLANE", slices |-> p,
       plane_offsets |-> <<0, 0>>, remapped_base |-> FALSE,
       remapped_size |-> 0] : p \in SlicePairs }

NoCall == [op |-> "none"]

(***************************************************************************)
(* Completion pipeline.                                                    *)
(*   inflight_cmd[s]  the in-flight slot of stream s: cmd_type (NoCmd is   *)
(*                    the code's 0) and elem (0 is NULL)                   *)
(*   elems[e]         the reply element of command e: whether its in_sg    *)
(*                    takes a response, and how often it was the argument  *)
(*                    of a scheduled task, pushed, detached and freed      *)
(*   bh               the tasks scheduled with aio_bh_schedule_oneshot and *)
(*                    not yet run, oldest first                            *)
(*   refcnt, owner    the device's reference count, and the reference the  *)
(*                    device's owner holds (1) or has dropped (0)          *)
(*   cmd_vq           the responses pushed to the command queue            *)
(*   event_vq         the reply slots the guest has made available on the  *)
(*                    event queue ("ok", or "bad": no usable in_sg)        *)
(*   event_queue      the device's backlog of pending events               *)
(*   event_sent       the event responses pushed to the event queue        *)
(*   calls            the number of completions and events requested so   *)
(*                    far                                                  *)
(*   crashed          the process has aborted                              *)
(*   works            the work items handed to the pipeline: the fields of *)
(*                    the response, whether the reply element takes it,    *)
(*                    and how often the item and its element were pushed,  *)
(*                    notified, detached and freed                         *)
(*   mutex            the device-wide mutex: whether it is held, and which *)
(*                    of the guarded objects were changed while it was not *)
(*   event_elem       the reply slot the last event task popped ("NULL":   *)
(*                    none), and how often it was pushed, detached and     *)
(*                    freed                                                *)
(*   resource_list    per direction, the resources of the stream's list    *)
(*   resources        every resource created: how often it was removed     *)
(*                    from its list, unmapped and freed                    *)
(***************************************************************************)
Streams == {1, 2}

\* dir of virtio_video_destroy_resource_list: the index of a resource list
Directions == {"QUEUE_INPUT", "QUEUE_OUTPUT"}

NoCmd == "0"

\* cmd_type is only cleared and printed by the pipeline: one type suffices
CmdTypes == {"STREAM_DRAIN"}

EventTypes == {"ERROR", "DECODER_RESOLUTION_CHANGED"}

NoElem == [slot |-> "NULL", pushed |-> 0, detached |-> 0, freed |-> 0]

InitQueues ==
    /\ inflight_cmd = [s \in Streams |-> [cmd_type |-> NoCmd, elem |-> 0]]
    /\ elems = <<>>
    /\ bh = <<>>
    /\ refcnt = 1
    /\ owner = 1
    /\ cmd_vq = <<>>
    /\ event_vq = <<>>
    /\ event_queue = <<>>
    /\ event_sent = <<>>
    /\ calls = 0
    /\ crashed = FALSE
    /\ works = <<>>
    /\ mutex = [held |-> FALSE, unguarded |-> {}]
    /\ event_elem = NoElem

InitPipe ==
    /\ InitQueues
    /\ resource_list = [d \in Directions |-> <<>>]
    /\ resources = <<>>
    /\ mem_type = [d \in Directions |-> "GUEST_PAGES"]

InitCopy ==
    /\ res \in SingleBufferResources \cup PerPlaneResources
    /\ mem = FreshMem(res)
    /\ wild = FALSE
    /\ wrote = NoCall
    /\ call = NoCall
    /\ InitPipe

\* a caller writes size bytes of its source buffer into plane idx
Memcpy(idx, size) ==
    /\ wrote = NoCall
    /\ \E o \in {virtio_video_memcpy(res, mem, idx, size)} :
          /\ mem' = o.mem
          /\ wild' = o.wild
          /\ wrote' = [op |-> "memcpy", idx |-> idx, size |-> size,
                       ret |-> o.ret, dst |-> <<>>]
          /\ call' = wrote'
    /\ UNCHANGED <<res, pipeVars, resVars>>

\* a caller reads size bytes of plane idx into a fresh destination buffer
MemcpyR(idx, size) ==
    /\ ~wild
    /\ call.op # "memcpy_r"
    /\ \E o \in {virtio_video_memcpy_r(res, mem, idx, size)} :
          call' = [op |-> "memcpy_r", idx |-> idx, size |-> size,
                   ret |-> o.ret, dst |-> o.dst]
    /\ UNCHANGED <<res, mem, wild, wrote, pipeVars, resVars>>

\* a caller dumps size bytes of plane idx into a fresh destination buffer
Memdump(idx, size) ==
    /\ ~wild
    /\ call.op # "memdump"
    /\ \E o \in {virtio_video_memdump(res, mem, idx, size)} :
          call' = [op |-> "memdump", idx |-> idx, size |-> size,
                   ret |-> o.ret, dst |-> o.dst]
    /\ UNCHANGED <<res, mem, wild, wrote, pipeVars, resVars>>

NextDump ==
    \/ \E idx \in Planes, size \in 0..MaxSize : Memcpy(idx, size)
    \/ \E idx \in Planes, size \in 0..MaxSize : Memdump(idx, size)

SpecDump == InitCopy /\ [][NextDump]_vars

\* what a page.len read behind the slice array may hold (-1: 0xffffffff)
GarbageLens == 0..MaxSliceLen \cup {-1}

\* a caller copies cp_height rows of width bytes, pitch bytes apart, into
\* plane 0: the rows below height from the buffer at src_begin, the others
\* from the buffer at src_uv, which follows it after BlankBytes bytes.
\* Should the copy read a page.len behind the slice array, it may find any
\* of GarbageLens there.
MemcpyByline(width, height, pitch, cp_height) ==
    /\ call = NoCall
    /\ LET a == [idx |-> 0, src_begin |-> 0,
                 src_uv |-> pitch * height + BlankBytes,
                 width |-> width, height |-> height, pitch |-> pitch,
                 cp_size |-> width * cp_height, cp_height |-> cp_height]
       IN  \E o0 \in {virtio_video_memcpy_byline(res, mem, a, 0)} :
           \E g \in (IF o0.oob THEN GarbageLens ELSE {0}) :
           \E o \in {IF g = 0 THEN o0 ELSE virtio_video_memcpy_byline(res, mem, a, g)} :
              /\ mem' = o.mem
              /\ wild' = o.wild
              /\ call' = [op |-> "byline", idx |-> 0, size |-> a.cp_size,
                           ret |-> o.ret, dst |-> <<>>, args |-> a,
                           oob |-> o.oob, rows |-> o.rows, left |-> o.left,
                           garbage |-> g]
    /\ UNCHANGED <<res, wrote, pipeVars, resVars>>

NextByline ==
    \E width \in 1..MaxWidth, pad \in 0..MaxPad, height \in 1..MaxRows,
       cp_height \in 0..MaxRows :
         MemcpyByline(width, height, width + pad, cp_height)

\* the resources of the strided copy: it reads the slices of plane 0 and
\* plane_offsets[0] only
BylineResources ==
    { [planes_layout |-> "SINGLE_BUFFER", slices |-> <<s0, <<>>>>,
       plane_offsets |-> <<k0, 0>>, remapped_base |-> FALSE,
       remapped_size |-> 0] :
         s0 \in SliceLens \ {<<>>}, k0 \in 0..MaxOffset }

InitByline ==
    /\ res \in BylineResources
    /\ mem = FreshMem(res)
    /\ wild = FALSE
    /\ wrote = NoCall
    /\ call = NoCall
    /\ InitPipe

SpecByline == InitByline /\ [][NextByline]_vars

\* a caller copies the size_Y bytes at Y and the size_UV bytes at UV into
\* plane 0; in the source the UV block follows the Y block after BlankBytes
\* bytes
MemcpyNV12(size_Y, size_UV) ==
    /\ call = NoCall
    /\ LET a == [Y |-> 0, size_Y |-> size_Y,
                 UV |-> size_Y + BlankBytes, size_UV |-> size_UV]
       IN  \E o \in {virtio_video_memcpy_NV12(res, mem, a)} :
              /\ mem' = o.mem
              /\ wild' = o.wild
              /\ call' = [op |-> "NV12", idx |-> 0, size |-> size_Y + size_UV,
                           ret |-> o.ret, dst |-> <<>>, args |-> a]
    /\ UNCHANGED <<res, wrote, pipeVars, resVars>>

NextNV12 == \E size_Y \in 0..MaxSize, size_UV \in 0..MaxSize : MemcpyNV12(size_Y, size_UV)

SpecNV12 == InitByline /\ [][NextNV12]_vars

NextCopy ==
    \/ \E idx \in Planes, size \in 0..MaxSize : Memcpy(idx, size)
    \/ \E idx \in Planes, size \in 0..MaxSize : MemcpyR(idx, size)

SpecCopy == InitCopy /\ [][NextCopy]_vars

(***************************************************************************)
(* Calls with malformed arguments: a NULL host buffer, or a pitch smaller  *)
(* than the width.  The host buffer is only ever handed to MEMCPY_S, so    *)
(* the traversal of the slices is the one of a call with a valid buffer.   *)
(* Only virtio_video_memcpy_singlebuffer_r tests its buffer.  Elsewhere    *)
(* the first MEMCPY_S of a nonzero length is given the NULL buffer: the    *)
(* process is killed, or a checking MEMCPY_S refuses that copy and the     *)
(* function goes on.                                                       *)
(***************************************************************************)
CopyOps == {"memcpy", "memcpy_r", "memdump"}

NullOutcomes == {"SIGSEGV", "refused"}

\* whether the function called tests its host buffer for NULL
ChecksNull(r, op) == op = "memcpy_r" /\ r.planes_layout = "SINGLE_BUFFER"

\* the call with a valid buffer: its return code, and whether it copied a byte
Traversal(r, m, op, idx, size) ==
    CASE op = "memcpy" ->
            LET o == virtio_video_memcpy(r, m, idx, size)
            IN  [ret |-> o.ret, copies |-> o.mem # m \/ o.wild]
      [] op = "memcpy_r" ->
            LET o == virtio_video_memcpy_r(r, m, idx, size)
            IN  [ret |-> o.ret, copies |-> o.dst # FreshDst(size)]
      [] op = "memdump" ->
            LET o == virtio_video_memdump(r, m, idx, size)
            IN  [ret |-> o.ret, copies |-> o.dst # FreshDst(size)]

\* a caller passes NULL as the host buffer
NullBufferCall(op, idx, size) ==
    /\ call = NoCall
    /\ \E t \in {Traversal(res, mem, op, idx, size)} :
       \E outcome \in (IF ChecksNull(res, op) THEN {"checked"}
                       ELSE IF t.copies THEN NullOutcomes ELSE {"returned"}) :
          call' = [op |-> op, idx |-> idx, size |-> size, dst |-> <<>>,
                   buffer |-> "NULL", outcome |-> outcome,
                   ret |-> CASE outcome = "checked" -> -1
                             [] outcome = "SIGSEGV" -> 0
                             [] OTHER -> t.ret]
    /\ UNCHANGED <<res, mem, wild, wrote, pipeVars, resVars>>

NextMalformed ==
    \/ \E op \in CopyOps, idx \in Planes, size \in 0..MaxSize :
          NullBufferCall(op, idx, size)
    \/ \E width \in 1..MaxWidth, height \in 1..MaxRows, cp_height \in 0..MaxRows :
       \E pitch \in 0..(width - 1) :
          res \in BylineResources /\ MemcpyByline(width, height, pitch, cp_height)

SpecMalformed == InitCopy /\ [][NextMalformed]_vars

(***************************************************************************)
(* The device-wide mutex v->mutex.  A change of an object the mutex guards *)
(* that is made while the mutex is not held is recorded in unguarded.      *)
(***************************************************************************)
qemu_mutex_lock(mx) == [mx EXCEPT !.held = TRUE]

qemu_mutex_unlock(mx) == [mx EXCEPT !.held = FALSE]

Mutated(mx, object) ==
    IF mx.held THEN mx ELSE [mx EXCEPT !.unguarded = @ \cup {object}]

(***************************************************************************)
(* Deferred completion of the in-flight command.                           *)
(***************************************************************************)
object_ref_missing(n) == n

object_ref(n) == n + 1

object_unref(n) == n - 1

\* what iov_from_buf(elem->in_sg, ...) == sizeof(resp) can come to: decided
\* by the element's in_sg while the element is live; a freed element is
\* read after its release, which may find anything or abort the process.
IovOutcomes(el, e) ==
    IF e = 0
    THEN {"crash"}
    ELSE IF el[e].freed > 0
         THEN {"ok", "fail", "crash"}
         ELSE IF el[e].in_ok THEN {"ok"} ELSE {"fail"}

\* a response that reports a cancelled command as done
RespTypeAlwaysOk(success) == "RESP_OK_NODATA"

RespType(success) ==
    IF success THEN "RESP_OK_NODATA" ELSE "RESP_ERR_INVALID_OPERATION"

\* a fault handling that gives up every reply element of the queue
virtio_video_cmd_others_complete_reset(s, success, out, st) ==
    IF out = "fail"
    THEN [st EXCEPT !.elems = [e \in DOMAIN st.elems |->
                                  [st.elems[e] EXCEPT !.detached = @ + 1,
                                                      !.freed = @ + 1]]]
    ELSE [st EXCEPT !.cmd_vq = Append(@, [elem |-> s.cmd.elem,
                                          type |-> RespType(success),
                                          stream_id |-> s.stream_id]),
                    !.elems[s.cmd.elem].pushed = @ + 1,
                    !.elems[s.cmd.elem].freed = @ + 1,
                    !.refcnt = object_unref(@)]

\* a completion that answers whatever command is in the slot when it runs
virtio_video_cmd_others_complete_slot(s, success, out, st) ==
    LET e == inflight_cmd[s.stream_id].elem
    IN  IF out = "fail"
        THEN [st EXCEPT !.elems[e].detached = @ + 1,
                        !.elems[e].freed = @ + 1]
        ELSE [st EXCEPT !.cmd_vq = Append(@, [elem |-> e,
                                              type |-> RespType(success),
                                              stream_id |-> s.stream_id]),
                        !.elems[e].pushed = @ + 1,
                        !.elems[e].freed = @ + 1,
                        !.refcnt = object_unref(@)]

\* s: the task's argument (struct virtio_video_cmd_bh_arg); out: what
\* iov_from_buf came to; st: [elems, cmd_vq, refcnt].  On the fault path
\* virtio_error reports the fault; following the specification it leaves
\* the device usable, so it changes nothing here.
virtio_video_cmd_others_complete(s, success, out, st) ==
    LET e == s.cmd.elem
    IN  IF out = "fail"
        THEN [st EXCEPT !.elems[e].detached = @ + 1,
                        !.elems[e].freed = @ + 1]
        ELSE [st EXCEPT !.cmd_vq = Append(@, [elem |-> e,
                                              type |-> RespType(success),
                                              stream_id |-> s.stream_id]),
                        !.elems[e].pushed = @ + 1,
                        !.elems[e].freed = @ + 1,
                        !.refcnt = object_unref(@)]

\* virtio_video_cmd_done_bh / virtio_video_cmd_cancel_bh: the oldest task runs
CmdBh ==
    /\ ~crashed
    /\ bh # <<>>
    /\ Head(bh).kind \in {"cmd_done", "cmd_cancel"}
    /\ \E out \in IovOutcomes(elems, Head(bh).cmd.elem) :
          IF out = "crash"
          THEN /\ crashed' = TRUE
               /\ UNCHANGED <<elems, cmd_vq, refcnt, bh>>
          ELSE \E st \in {virtio_video_cmd_others_complete(
                              Head(bh), Head(bh).kind = "cmd_done", out,
                              [elems |-> elems, cmd_vq |-> cmd_vq,
                               refcnt |-> refcnt])} :
                 /\ elems' = st.elems
                 /\ cmd_vq' = st.cmd_vq
                 /\ refcnt' = st.refcnt
                 /\ bh' = Tail(bh)
                 /\ UNCHANGED crashed
    /\ UNCHANGED <<copyVars, resVars, event_elem, works, mutex, inflight_cmd, owner, event_vq, event_queue,
                   event_sent, calls>>

\* virtio_video_inflight_cmd_done / virtio_video_inflight_cmd_cancel: copy
\* the slot into the task's argument, whatever the slot holds, clear
\* cmd_type, take a reference, schedule the task
InflightCmdResolve(stream, kind) ==
    /\ ~crashed
    /\ owner = 1
    /\ calls < MaxCalls
    /\ calls' = calls + 1
    /\ inflight_cmd' = [inflight_cmd EXCEPT ![stream].cmd_type = NoCmd]
    /\ elems' = IF inflight_cmd[stream].elem = 0
                 THEN elems
                 ELSE [elems EXCEPT ![inflight_cmd[stream].elem].scheduled = @ + 1]
    /\ mutex' = Mutated(mutex, "inflight_cmd")
    /\ refcnt' = object_ref(refcnt)
    /\ bh' = Append(bh, [kind |-> kind, cmd |-> inflight_cmd[stream],
                          stream_id |-> stream])
    /\ UNCHANGED <<copyVars, resVars, event_elem, works, owner, cmd_vq, event_vq, event_queue, event_sent,
                   crashed>>

virtio_video_inflight_cmd_done(stream) == InflightCmdResolve(stream, "cmd_done")

virtio_video_inflight_cmd_cancel(stream) == InflightCmdResolve(stream, "cmd_cancel")

(***************************************************************************)
(* Completion of a work item.  USE_BH_FOR_OUTPUT is not defined, so        *)
(* virtio_video_work_done completes the work item in the call itself.      *)
(***************************************************************************)
\* the response of CMD_RESOURCE_QUEUE for work item w
ResourceQueueResp(w, work, stream_id) ==
    [work |-> w, type |-> "RESP_OK_NODATA", stream_id |-> stream_id,
     timestamp |-> work.timestamp, flags |-> work.flags, size |-> work.size]

\* a completion that forgets the work item on the transport fault
virtio_video_cmd_resource_queue_complete_leak(w, stream_id, st) ==
    IF ~st.works[w].in_ok
    THEN [st EXCEPT !.works[w].detached = @ + 1,
                    !.works[w].elem_freed = @ + 1,
                    !.works[w].ret = -1]
    ELSE [st EXCEPT !.cmd_vq = Append(@, ResourceQueueResp(w, st.works[w], stream_id)),
                    !.works[w].pushed = @ + 1,
                    !.works[w].notified = @ + 1,
                    !.works[w].elem_freed = @ + 1,
                    !.works[w].work_freed = @ + 1,
                    !.works[w].ret = 0]

\* st: [works, cmd_vq]; the return value is kept in works[w].ret
virtio_video_cmd_resource_queue_complete(w, stream_id, st) ==
    IF ~st.works[w].in_ok
    THEN [st EXCEPT !.works[w].detached = @ + 1,
                    !.works[w].elem_freed = @ + 1,
                    !.works[w].work_freed = @ + 1,
                    !.works[w].ret = -1]
    ELSE [st EXCEPT !.cmd_vq = Append(@, ResourceQueueResp(w, st.works[w], stream_id)),
                    !.works[w].pushed = @ + 1,
                    !.works[w].notified = @ + 1,
                    !.works[w].elem_freed = @ + 1,
                    !.works[w].work_freed = @ + 1,
                    !.works[w].ret = 0]

\* the caller has taken the work item off the stream's work list
virtio_video_work_done(w) ==
    /\ ~crashed
    /\ owner = 1
    /\ calls < MaxCalls
    /\ ~works[w].done
    /\ calls' = calls + 1
    /\ \E st \in {virtio_video_cmd_resource_queue_complete(
                        w, works[w].stream_id,
                        [works |-> [works EXCEPT ![w].done = TRUE],
                         cmd_vq |-> cmd_vq])} :
          /\ works' = st.works
          /\ cmd_vq' = st.cmd_vq
    /\ UNCHANGED <<copyVars, resVars, event_elem, mutex, inflight_cmd, elems, bh, refcnt,
                   owner, event_vq, event_queue, event_sent, crashed>>

(***************************************************************************)
(* Event reporting.                                                        *)
(***************************************************************************)
\* an insertion at the wrong end of the backlog
QTAILQ_INSERT_HEAD(q, event) == <<event>> \o q

QTAILQ_INSERT_TAIL(q, event) == Append(q, event)

virtio_video_report_event(event, stream_id) ==
    /\ ~crashed
    /\ owner = 1
    /\ calls < MaxCalls
    /\ calls' = calls + 1
    /\ refcnt' = object_ref(refcnt)
    /\ bh' = Append(bh, [kind |-> "event", event_type |-> event,
                          stream_id |-> stream_id])
    /\ UNCHANGED <<copyVars, resVars, event_elem, works, mutex, inflight_cmd, elems, owner, cmd_vq, event_vq,
                   event_queue, event_sent, crashed>>

\* the response is written into the reply slot elem and pushed; a slot
\* whose in_sg does not take the whole response is detached, and the event
\* is freed without having been transmitted
virtio_video_event_complete(elem, event, sent) ==
    IF elem = "ok"
    THEN [ret |-> 0, event_sent |-> Append(sent, event),
          event_elem |-> [slot |-> elem, pushed |-> 1, detached |-> 0,
                          freed |-> 1]]
    ELSE [ret |-> -1, event_sent |-> sent,
          event_elem |-> [slot |-> elem, pushed |-> 0, detached |-> 1,
                          freed |-> 1]]

\* a test that takes every popped slot for usable
UnusableOnlyIfNone(slots) == slots = <<>>

\* !elem || elem->in_num < 1 || elem->in_sg[0].iov_len < sizeof(virtio_video_event)
Unusable(slots) == slots = <<>> \/ Head(slots) = "bad"

\* virtio_video_event_bh: the oldest task runs.  A usable element has a
\* first in_sg segment of at least sizeof(virtio_video_event), so
\* iov_from_buf in virtio_video_event_complete takes the whole response.
virtio_video_event_bh ==
    /\ ~crashed
    /\ bh # <<>>
    /\ Head(bh).kind = "event"
    /\ LET event == [event_type |-> Head(bh).event_type,
                     stream_id |-> Head(bh).stream_id]
       IN  IF Unusable(event_vq)
           THEN /\ event_queue' = QTAILQ_INSERT_TAIL(event_queue, event)
                /\ mutex' = qemu_mutex_unlock(
                                Mutated(qemu_mutex_lock(mutex), "event_queue"))
                /\ event_vq' = IF event_vq = <<>> THEN event_vq ELSE Tail(event_vq)
                /\ event_elem' = IF event_vq = <<>>
                                 THEN NoElem
                                 ELSE [slot |-> Head(event_vq), pushed |-> 0,
                                       detached |-> 1, freed |-> 1]
                /\ UNCHANGED event_sent
           ELSE /\ event_vq' = Tail(event_vq)
                /\ \E o \in {virtio_video_event_complete(Head(event_vq), event,
                                                         event_sent)} :
                      /\ event_sent' = o.event_sent
                      /\ event_elem' = o.event_elem
                /\ mutex' = qemu_mutex_unlock(qemu_mutex_lock(mutex))
                /\ UNCHANGED event_queue
    /\ refcnt' = object_unref(refcnt)
    /\ bh' = Tail(bh)
    /\ UNCHANGED <<copyVars, resVars, works, inflight_cmd, elems, owner, cmd_vq, calls,
                   crashed>>

(***************************************************************************)
(* The pipeline's surroundings: the guest and the device's owner.          *)
(***************************************************************************)
\* a command arrives with its reply element and occupies the empty slot
GuestCommand(stream, cmd_type, in_ok) ==
    /\ ~crashed
    /\ owner = 1
    /\ Len(elems) + Len(works) < MaxCmds
    /\ inflight_cmd[stream].cmd_type = NoCmd
    /\ elems' = Append(elems, [in_ok |-> in_ok, scheduled |-> 0, pushed |-> 0,
                                detached |-> 0, freed |-> 0])
    /\ inflight_cmd' = [inflight_cmd EXCEPT
                           ![stream] = [cmd_type |-> cmd_type,
                                        elem |-> Len(elems) + 1]]
    /\ UNCHANGED <<copyVars, resVars, event_elem, works, mutex, bh, refcnt, owner, cmd_vq, event_vq, event_queue,
                   event_sent, calls, crashed>>

\* the timestamp, flags and size a finished work item can carry
WorkFields ==
    { [timestamp |-> 40, flags |-> 1, size |-> 3],
      [timestamp |-> 41, flags |-> 0, size |-> 0] }

\* a work item of a stream is ready to be completed; its reply element
\* takes the response (in_ok) or not
QueueWork(stream, f, in_ok) ==
    /\ ~crashed
    /\ owner = 1
    /\ Len(elems) + Len(works) < MaxCmds
    /\ works' = Append(works, [stream_id |-> stream, timestamp |-> f.timestamp,
                                flags |-> f.flags, size |-> f.size,
                                in_ok |-> in_ok, done |-> FALSE, ret |-> 0,
                                pushed |-> 0, notified |-> 0, detached |-> 0,
                                elem_freed |-> 0, work_freed |-> 0])
    /\ UNCHANGED <<copyVars, resVars, event_elem, mutex, inflight_cmd, elems, bh, refcnt,
                   owner, cmd_vq, event_vq, event_queue, event_sent, calls,
                   crashed>>

\* the guest makes a reply slot available on the event queue
GuestEventBuf(kind) ==
    /\ ~crashed
    /\ Len(event_vq) < MaxEventBufs
    /\ event_vq' = Append(event_vq, kind)
    /\ UNCHANGED <<copyVars, resVars, event_elem, works, mutex, inflight_cmd, elems, bh, refcnt, owner, cmd_vq,
                   event_queue, event_sent, calls, crashed>>

\* the device is torn down: its owner drops the reference it holds
Teardown ==
    /\ ~crashed
    /\ owner = 1
    /\ owner' = 0
    /\ refcnt' = object_unref(refcnt)
    /\ UNCHANGED <<copyVars, resVars, event_elem, works, mutex, inflight_cmd, elems, bh, cmd_vq, event_vq,
                   event_queue, event_sent, calls, crashed>>

NextPipe ==
    \/ \E stream \in Streams, ct \in CmdTypes, ok \in BOOLEAN :
          GuestCommand(stream, ct, ok)
    \/ \E stream \in Streams : virtio_video_inflight_cmd_done(stream)
    \/ \E stream \in Streams : virtio_video_inflight_cmd_cancel(stream)
    \/ CmdBh
    \/ \E event \in EventTypes, stream \in Streams :
          virtio_video_report_event(event, stream)
    \/ virtio_video_event_bh
    \/ \E kind \in {"ok", "bad"} : GuestEventBuf(kind)
    \/ Teardown

\* the copy engine is idle while the pipeline is explored
IdleResource ==
    [planes_layout |-> "PER_PLANE", slices |-> <<<<>>, <<>>>>,
     plane_offsets |-> <<0, 0>>, remapped_base |-> FALSE, remapped_size |-> 0]

InitPipeOnly ==
    /\ res = IdleResource
    /\ mem = FreshMem(res)
    /\ wild = FALSE
    /\ wrote = NoCall
    /\ call = NoCall
    /\ InitPipe

SpecPipe == InitPipeOnly /\ [][NextPipe]_vars

\* work items and commands completed side by side
NextWork ==
    \/ \E stream \in Streams, f \in WorkFields, ok \in BOOLEAN :
          QueueWork(stream, f, ok)
    \/ \E w \in DOMAIN works : virtio_video_work_done(w)
    \/ \E stream \in Streams, ct \in CmdTypes, ok \in BOOLEAN :
          GuestCommand(stream, ct, ok)
    \/ \E stream \in Streams : virtio_video_inflight_cmd_done(stream)
    \/ \E stream \in Streams : virtio_video_inflight_cmd_cancel(stream)
    \/ CmdBh
    \/ Teardown

SpecWork == InitPipeOnly /\ [][NextWork]_vars

\* work items, commands and events completed side by side: the work items
\* of the first stream, the commands of the second, error events of both
NextFault ==
    \/ \E f \in WorkFields, ok \in BOOLEAN : QueueWork(1, f, ok)
    \/ \E w \in DOMAIN works : virtio_video_work_done(w)
    \/ \E ct \in CmdTypes, ok \in BOOLEAN : GuestCommand(2, ct, ok)
    \/ virtio_video_inflight_cmd_done(2)
    \/ virtio_video_inflight_cmd_cancel(2)
    \/ CmdBh
    \/ \E stream \in Streams : virtio_video_report_event("ERROR", stream)
    \/ virtio_video_event_bh
    \/ \E kind \in {"ok", "bad"} : GuestEventBuf(kind)

SpecFault == InitPipeOnly /\ [][NextFault]_vars

(***************************************************************************)
(* Resources and the per-direction resource lists of a stream.             *)
(*                                                                         *)
(* resources[r] is the r-th resource the stream was given: the number of   *)
(* slices of each of its planes (num_entries), whether it has a remapped   *)
(* region, and log, the calls its destruction has made so far, in order.   *)
(* resource_list[d] is the list of direction d, head first, and            *)
(* mem_type[d] the memory type of the stream's queue d.                    *)
(***************************************************************************)
MemTypes == {"GUEST_PAGES", "VIRTIO_OBJECT"}

ResourceShapes == {<<1>>, <<2, 1>>}

QUEUE(in) == IF in THEN "QUEUE_INPUT" ELSE "QUEUE_OUTPUT"

QLIST_INSERT_HEAD(lists, d, r) == [lists EXCEPT ![d] = <<r>> \o @]

QLIST_REMOVE(lists, r) ==
    [d \in Directions |-> SelectSeq(lists[d], LAMBDA x : x # r)]

\* the calls made for the j-th and later slices of a plane of n slices
RECURSIVE SlicesLog(_, _, _, _)
SlicesLog(n, j, mt, in) ==
    IF j > n THEN <<>>
    ELSE (IF mt = "GUEST_PAGES"
          THEN <<IF in THEN "dma_memory_unmap(TO_DEVICE)"
                       ELSE "dma_memory_unmap(FROM_DEVICE)">>
          ELSE <<>>)
         \o SlicesLog(n, j + 1, mt, in)

\* the calls made for the i-th and later planes
RECURSIVE PlanesLog(_, _, _, _)
PlanesLog(entries, i, mt, in) ==
    IF i > Len(entries) THEN <<>>
    ELSE SlicesLog(entries[i], 1, mt, in) \o <<"g_free(slices)">>
         \o PlanesLog(entries, i + 1, mt, in)

\* st holds the lists and the resources; the result is st after the call
virtio_video_destroy_resource(st, r, mt, in) ==
    LET resource == st.resources[r]
        unmapped == IF resource.remapped_base THEN <<"munmap">> ELSE <<>>
        log == unmapped \o <<"QLIST_REMOVE">>
                   \o PlanesLog(resource.num_entries, 1, mt, in)
                   \o <<"g_free(resource)">>
    IN  [resource_list |-> QLIST_REMOVE(st.resource_list, r),
         resources |-> [st.resources EXCEPT ![r].remapped_base = FALSE,
                                            ![r].log = @ \o log]]

\* QLIST_FOREACH_SAFE over the resources that are on the list
RECURSIVE DestroyEach(_, _, _, _)
DestroyEach(st, list, mt, in) ==
    IF list = <<>> THEN st
    ELSE DestroyEach(virtio_video_destroy_resource(st, Head(list), mt, in),
                     Tail(list), mt, in)

virtio_video_destroy_resource_list(st, mts, in) ==
    DestroyEach(st, st.resource_list[QUEUE(in)], mts[QUEUE(in)], in)

\* a create-resource command puts a new resource on the list of its queue
CreateResource(d, shape, remapped) ==
    /\ Len(resources) < MaxResources
    /\ resources' = Append(resources,
                           [queue |-> d, num_entries |-> shape,
                            remapped_base |-> remapped, log |-> <<>>])
    /\ resource_list' = QLIST_INSERT_HEAD(resource_list, d, Len(resources) + 1)
    /\ UNCHANGED <<copyVars, pipeVars, mem_type>>

\* one resource that is on a list is destroyed
DestroyResource(d, r) ==
    /\ \E k \in DOMAIN resource_list[d] : resource_list[d][k] = r
    /\ \E st \in {virtio_video_destroy_resource(
                       [resource_list |-> resource_list, resources |-> resources],
                       r, mem_type[d], d = "QUEUE_INPUT")} :
          /\ resource_list' = st.resource_list
          /\ resources' = st.resources
    /\ UNCHANGED <<copyVars, pipeVars, mem_type>>

\* stream teardown, destroy-all or queue-clear of one direction
DestroyResourceList(in) ==
    /\ resource_list[QUEUE(in)] # <<>>
    /\ \E st \in {virtio_video_destroy_resource_list(
                       [resource_list |-> resource_list, resources |-> resources],
                       mem_type, in)} :
          /\ resource_list' = st.resource_list
          /\ resources' = st.resources
    /\ UNCHANGED <<copyVars, pipeVars, mem_type>>

NextRes ==
    \/ \E d \in Directions, shape \in ResourceShapes, remapped \in BOOLEAN :
          CreateResource(d, shape, remapped)
    \/ \E d \in Directions, r \in DOMAIN resources : DestroyResource(d, r)
    \/ \E in \in BOOLEAN : DestroyResourceList(in)

InitRes ==
    /\ res = IdleResource
    /\ mem = FreshMem(res)
    /\ wild = FALSE
    /\ wrote = NoCall
    /\ call = NoCall
    /\ InitQueues
    /\ resource_list = [d \in Directions |-> <<>>]
    /\ resources = <<>>
    /\ mem_type \in [Directions -> MemTypes]

SpecRes == InitRes /\ [][NextRes]_vars

(***************************************************************************)
(* Properties of the copy engine.                                          *)
(***************************************************************************)
\* bytes a transfer into or out of plane idx can move
Capacity(r, idx) ==
    IF r.planes_layout = "PER_PLANE"
    THEN PlaneLen(r, idx)
    ELSE PlaneLen(r, 0) - r.plane_offsets[idx + 1]

\* C1: a PER_PLANE write of size bytes into a plane whose slices total L
\* bytes returns 0 if and only if size <= L, and -1 otherwise.
C1_PerPlaneWriteIff ==
    (call.op = "memcpy" /\ res.planes_layout = "PER_PLANE")
        => /\ call.ret \in {0, -1}
           /\ (call.ret = 0) <=> (call.size <= PlaneLen(res, call.idx))

C1_Witness ==
    /\ call.op = "memcpy"
    /\ res.planes_layout = "PER_PLANE"
    /\ num_entries(res, call.idx) >= 2
    /\ call.size = PlaneLen(res, call.idx)
    /\ call.size > page_len(res, call.idx, 0)
    /\ call.ret = 0
    /\ \A pos \in 1..call.size : mem[call.idx + 1][pos] = SrcByte(pos - 1)

\* C2: after a successful PER_PLANE write of size bytes into plane idx, a
\* read of size bytes from plane idx returns 0 and the destination holds
\* exactly the bytes of the source.
C2_RoundTrip ==
    (/\ call.op = "memcpy_r"
     /\ res.planes_layout = "PER_PLANE"
     /\ wrote.op = "memcpy"
     /\ wrote.ret = 0
     /\ call.idx = wrote.idx
     /\ call.size = wrote.size)
        => /\ call.ret = 0
           /\ Len(call.dst) = call.size
           /\ \A i \in 1..call.size : call.dst[i] = SrcByte(i - 1)

C2_Witness ==
    /\ call.op = "memcpy_r"
    /\ res.planes_layout = "PER_PLANE"
    /\ wrote.op = "memcpy"
    /\ wrote.ret = 0
    /\ call.idx = wrote.idx
    /\ call.idx = 1
    /\ call.size = wrote.size
    /\ num_entries(res, 1) >= 2
    /\ call.size > page_len(res, 1, 0)
    /\ call.ret = 0

\* C11: when a PER_PLANE write fails because the slices of the plane total
\* only L < size bytes, the first L bytes of src are in the slices, every
\* slice filled in order, and the other plane is as it was.
C11_PartialWriteKept ==
    (call.op = "memcpy" /\ res.planes_layout = "PER_PLANE" /\ call.ret = -1)
        => /\ PlaneLen(res, call.idx) < call.size
           /\ \A pos \in 1..PlaneLen(res, call.idx) :
                 mem[call.idx + 1][pos] = SrcByte(pos - 1)
           /\ \A pos \in 1..PlaneLen(res, 1 - call.idx) :
                 mem[2 - call.idx][pos] = Sentinel(1 - call.idx, pos)
           /\ ~wild

C11_Witness ==
    /\ call.op = "memcpy"
    /\ res.planes_layout = "PER_PLANE"
    /\ call.ret = -1
    /\ num_entries(res, call.idx) >= 2
    /\ call.size = PlaneLen(res, call.idx) + 2
    /\ mem[call.idx + 1][PlaneLen(res, call.idx)] = SrcByte(PlaneLen(res, call.idx) - 1)

\* C3 (as claimed): every write and every read, under both layouts, returns
\* 0 when size equals the capacity and -1 when size is the capacity plus one.
C3_ExactFitAndOverflow ==
    (call.op \in {"memcpy", "memcpy_r"} /\ Capacity(res, call.idx) >= 0)
        => /\ (call.size = Capacity(res, call.idx)) => (call.ret = 0)
           /\ (call.size = Capacity(res, call.idx) + 1) => (call.ret = -1)

\* C4 (as claimed): a SINGLE_BUFFER write of size < L - k into the plane at
\* plane_offset k leaves every byte before position k as it was.
C4_BytesBeforeOffsetKept ==
    (/\ call.op = "memcpy"
     /\ res.planes_layout = "SINGLE_BUFFER"
     /\ call.size < Capacity(res, call.idx))
        => \A pos \in 1..res.plane_offsets[call.idx + 1] :
              mem[1][pos] = Sentinel(0, pos)

\* the resource without its pre-mapped region
Unmapped(r) == [r EXCEPT !.remapped_base = FALSE, !.remapped_size = 0]

\* C13 (as claimed): a SINGLE_BUFFER write on a resource with the pre-mapped
\* region returns what the per-slice traversal returns on the same resource
\* without the region, and leaves the same bytes in memory.
C13_FastPathEquivalent ==
    (/\ call.op = "memcpy"
     /\ res.planes_layout = "SINGLE_BUFFER"
     /\ res.remapped_base)
        => LET slow == virtio_video_memcpy_singlebuffer(
                           Unmapped(res), FreshMem(res), call.idx, call.size)
           IN  /\ call.ret = slow.ret
               /\ mem = slow.mem

\* C12: a dump of more bytes than the plane can hold returns 0 under
\* PER_PLANE, with the bytes the plane has in dst, and -1 under
\* SINGLE_BUFFER.
C12_DumpTolerantPerPlaneOnly ==
    (/\ call.op = "memdump"
     /\ call.size > 0
     /\ call.size > Capacity(res, call.idx))
        => IF res.planes_layout = "PER_PLANE"
           THEN /\ call.ret = 0
                /\ \A i \in 1..call.size :
                      call.dst[i] = IF i <= PlaneLen(res, call.idx)
                                    THEN mem[call.idx + 1][i]
                                    ELSE 0
           ELSE call.ret = -1

C12_Witness ==
    /\ call.op = "memdump"
    /\ res.planes_layout = "PER_PLANE"
    /\ wrote.op = "memcpy"
    /\ wrote.idx = call.idx
    /\ num_entries(res, call.idx) >= 2
    /\ call.size > PlaneLen(res, call.idx)
    /\ call.ret = 0
    /\ call.dst[PlaneLen(res, call.idx)] = SrcByte(PlaneLen(res, call.idx) - 1)

\* C5 (as claimed): a read returns -1 whenever the slices are exhausted with
\* requested bytes still uncopied, and 0 only when all size bytes were
\* copied into dst, under both layouts.
C5_ReadExhaustion ==
    (call.op = "memcpy_r" /\ Capacity(res, call.idx) >= 0)
        => (call.ret = 0) <=> (call.size <= Capacity(res, call.idx))

(***************************************************************************)
(* Properties of the strided copy.                                         *)
(***************************************************************************)
\* bytes of plane 0 from plane_offsets[0] onward
BylineCapacity(r) == PlaneLen(r, 0) - r.plane_offsets[1]

\* the byte of column c of source row i
RowByte(a, i, c) ==
    IF i < a.height
    THEN SrcByte(a.src_begin + i * a.pitch + c)
    ELSE SrcByte(a.src_uv + (i - a.height) * a.pitch + c)

\* plane 0 holds the first width bytes of each of the cp_height rows, in
\* order and without a gap, from plane_offsets[0] on, and nothing else changed
PackedRows(r, m, a) ==
    \A pos \in 1..Len(m[1]) :
        LET q == pos - 1 - r.plane_offsets[1]
        IN  IF q >= 0 /\ q < a.width * a.cp_height
            THEN m[1][pos] = RowByte(a, q \div a.width, q % a.width)
            ELSE m[1][pos] = Sentinel(0, pos)

\* C9 (as claimed): with pitch > width and enough slice capacity the strided
\* copy writes the first width bytes of every row contiguously into the
\* slices; no padding byte appears, wherever the slice boundaries fall.
C9_PackedRows ==
    (/\ call.op = "byline"
     /\ call.args.pitch > call.args.width
     /\ BylineCapacity(res) >= call.args.cp_size)
        => /\ PackedRows(res, mem, call.args)
           /\ ~wild

\* C10 (as claimed): the strided copy returns -1 if and only if bytes of
\* cp_size remain uncopied, that is 0 exactly when the capacity from
\* plane_offset onward is at least cp_size.
C10_BylineReturn ==
    (call.op = "byline" /\ BylineCapacity(res) >= 0)
        => (call.ret = 0) <=> (BylineCapacity(res) >= call.args.cp_size)

\* C24 (as claimed): the strided copy reads and writes only slices whose
\* index is within 0 .. num_entries[idx] - 1 of the plane it copies into,
\* also when the slices are exhausted in the middle of a row or at the end
\* of a row with rows remaining.
C24_SlicesInRange ==
    (call.op = "byline") => ~call.oob

(***************************************************************************)
(* Properties of the completion pipeline.                                  *)
(***************************************************************************)
\* C6 (as claimed): for every command placed in an in-flight slot at most
\* one completion task is scheduled, at most one response is pushed and the
\* reply element is freed at most once, whatever done / cancel calls are
\* made.
C6_AtMostOneResponse ==
    \A e \in DOMAIN elems :
        /\ elems[e].scheduled <= 1
        /\ elems[e].pushed <= 1
        /\ elems[e].freed <= 1

\* the responses pushed to the command queue for work item w
WorkResponses(w) ==
    { i \in 1..Len(cmd_vq) : "work" \in DOMAIN cmd_vq[i] /\ cmd_vq[i].work = w }

\* C14: a completed work item whose reply element takes the response has
\* one response pushed and notified, with status OK-no-data, its stream id,
\* timestamp, flags and size, and 0 returned; one whose element does not
\* has the element detached, nothing pushed or notified and -1 returned;
\* either way the work item and its element are freed exactly once.  A
\* work item not yet completed is untouched.
C14_WorkCompletion ==
    \A w \in DOMAIN works :
        LET k == works[w]
        IN  IF ~k.done
            THEN /\ WorkResponses(w) = {}
                 /\ k.pushed = 0 /\ k.notified = 0 /\ k.detached = 0
                 /\ k.elem_freed = 0 /\ k.work_freed = 0
            ELSE /\ k.elem_freed = 1
                 /\ k.work_freed = 1
                 /\ IF k.in_ok
                    THEN /\ k.ret = 0
                         /\ k.pushed = 1 /\ k.notified = 1 /\ k.detached = 0
                         /\ Cardinality(WorkResponses(w)) = 1
                         /\ \A i \in WorkResponses(w) :
                               cmd_vq[i] = [work |-> w, type |-> "RESP_OK_NODATA",
                                            stream_id |-> k.stream_id,
                                            timestamp |-> k.timestamp,
                                            flags |-> k.flags, size |-> k.size]
                    ELSE /\ k.ret = -1
                         /\ k.pushed = 0 /\ k.notified = 0 /\ k.detached = 1
                         /\ WorkResponses(w) = {}

C14_Witness ==
    /\ Len(works) = 2
    /\ works[1].done /\ ~works[1].in_ok /\ works[1].ret = -1
    /\ works[2].done /\ works[2].in_ok /\ works[2].ret = 0
    /\ works[1].stream_id # works[2].stream_id
    /\ works[1].timestamp # works[2].timestamp
    /\ Len(cmd_vq) = 1

\* C15 (as claimed): a step in which a completion is requested (work done,
\* in-flight command done or cancel, event report) enqueues one task and
\* transmits nothing: no response is pushed to the command queue or the
\* event queue in that step.
C15_CallsOnlyEnqueue ==
    [][(calls' # calls)
          => /\ Len(bh') = Len(bh) + 1
             /\ cmd_vq' = cmd_vq
             /\ event_sent' = event_sent
             /\ \A w \in DOMAIN works : works'[w].pushed = works[w].pushed]_vars

\* C16: when the event task runs with no reply slot on the event queue, the
\* event goes to the tail of the backlog and nothing is transmitted; when it
\* pops a usable slot, the response with the event's type and stream id is
\* pushed in that step and the backlog is left as it was.
C16_EventTask ==
    [][(bh # <<>> /\ Head(bh).kind = "event" /\ bh' = Tail(bh))
          => LET ev == [event_type |-> Head(bh).event_type,
                        stream_id |-> Head(bh).stream_id]
             IN  /\ (event_vq = <<>>)
                       => /\ event_queue' = event_queue \o <<ev>>
                          /\ event_sent' = event_sent
                          /\ event_vq' = event_vq
                 /\ (event_vq # <<>> /\ Head(event_vq) = "ok")
                       => /\ event_sent' = event_sent \o <<ev>>
                          /\ event_queue' = event_queue
                          /\ event_vq' = Tail(event_vq)]_vars

C16_Witness ==
    /\ bh = <<>>
    /\ Len(event_queue) = 1
    /\ Len(event_sent) = 1

\* C17: a command-completion task that transmits pushes one response, with
\* status OK-no-data if virtio_video_inflight_cmd_done scheduled it and
\* invalid-operation if virtio_video_inflight_cmd_cancel did, and with the
\* stream id of the resolved stream; the step that schedules the task leaves
\* the stream's slot with cmd_type 0; and a slot goes from occupied to
\* cmd_type 0 only in a step that schedules a completion task for its stream.
C17_CommandResponse ==
    [][/\ (/\ bh # <<>>
            /\ Head(bh).kind \in {"cmd_done", "cmd_cancel"}
            /\ bh' = Tail(bh)
            /\ cmd_vq' # cmd_vq)
          => cmd_vq' = cmd_vq \o
                 <<[elem |-> Head(bh).cmd.elem,
                    type |-> IF Head(bh).kind = "cmd_done"
                             THEN "RESP_OK_NODATA"
                             ELSE "RESP_ERR_INVALID_OPERATION",
                    stream_id |-> Head(bh).stream_id]>>
       /\ (/\ Len(bh') = Len(bh) + 1
            /\ bh'[Len(bh')].kind \in {"cmd_done", "cmd_cancel"})
          => inflight_cmd'[bh'[Len(bh')].stream_id].cmd_type = NoCmd
       /\ \A s \in Streams :
             (inflight_cmd[s].cmd_type # NoCmd /\ inflight_cmd'[s].cmd_type = NoCmd)
                => /\ Len(bh') = Len(bh) + 1
                   /\ bh'[Len(bh')].kind \in {"cmd_done", "cmd_cancel"}
                   /\ bh'[Len(bh')].stream_id = s]_vars

C17_Witness ==
    /\ bh = <<>>
    /\ Len(cmd_vq) = 2
    /\ cmd_vq[1].type # cmd_vq[2].type
    /\ cmd_vq[1].stream_id # cmd_vq[2].stream_id
    /\ \A s \in Streams : inflight_cmd[s].cmd_type = NoCmd /\ inflight_cmd[s].elem # 0

\* what a transport fault must leave alone: the device is neither aborted
\* nor torn down, and the slots, the responses already pushed and the
\* events already sent are as they were
FaultLeavesDevice ==
    /\ crashed' = crashed
    /\ owner' = owner
    /\ inflight_cmd' = inflight_cmd
    /\ cmd_vq' = cmd_vq
    /\ event_sent' = event_sent

C19_LockDiscipline ==
    /\ mutex.unguarded = {}
    /\ ~mutex.held

\* where the first call named op stands in a log (0: nowhere)
RECURSIVE IndexOf(_, _, _)
IndexOf(log, op, k) ==
    IF k > Len(log) THEN 0
    ELSE IF log[k] = op THEN k ELSE IndexOf(log, op, k + 1)

Releases == {"munmap", "dma_memory_unmap(TO_DEVICE)",
             "dma_memory_unmap(FROM_DEVICE)", "g_free(slices)",
             "g_free(resource)"}

\* how many times the log of a resource frees the resource
Frees(log) == Cardinality({k \in DOMAIN log : log[k] = "g_free(resource)"})

RemovedBeforeRelease ==
    \A r \in DOMAIN resources :
       \A k \in DOMAIN resources[r].log :
          resources[r].log[k] \in Releases
             => /\ IndexOf(resources[r].log, "QLIST_REMOVE", 1) > 0
                /\ IndexOf(resources[r].log, "QLIST_REMOVE", 1) < k

ListDestroyed(in) ==
    /\ resource_list'[QUEUE(in)] = <<>>
    /\ \A k \in DOMAIN resource_list[QUEUE(in)] :
          /\ Frees(resources[resource_list[QUEUE(in)][k]].log) = 0
          /\ Frees(resources'[resource_list[QUEUE(in)][k]].log) = 1
    /\ resource_list'[QUEUE(~in)] = resource_list[QUEUE(~in)]
    /\ \A k \in DOMAIN resource_list[QUEUE(~in)] :
          resources'[resource_list[QUEUE(~in)][k]]
             = resources[resource_list[QUEUE(~in)][k]]

\* C20 (as claimed): a resource is taken off its per-direction list before
\* any of its slices or memory is released, and destroying the list of one
\* direction leaves that list empty, destroys each resource that was on it
\* exactly once and leaves the other direction's list and resources alone.
C20_RemovedThenDestroyed ==
    /\ []RemovedBeforeRelease
    /\ [][\A in \in BOOLEAN : DestroyResourceList(in) => ListDestroyed(in)]_vars

\* C21 (as claimed): a copy called with a NULL host buffer, or a strided
\* write called with a pitch smaller than its width, returns failure, and
\* has neither read nor written a byte of a slice before it does.
C21_MalformedFailsFast ==
    /\ (call.op \in CopyOps /\ call.buffer = "NULL")
          => call.outcome \in {"checked", "returned"} /\ call.ret = -1
    /\ (call.op = "byline" /\ call.args.pitch < call.args.width)
          => call.ret = -1 /\ mem = FreshMem(res) /\ ~wild

\* C22 (as claimed): a dump leaves in dst the bytes a read of the same
\* plane and size leaves there, and the two differ in the return code only
\* when the slices are exhausted; a dump of size bytes after a successful
\* write of size bytes to the plane returns 0 and the bytes written.
C22_DumpIsRead ==
    (call.op = "memdump")
       => LET read == virtio_video_memcpy_r(res, mem, call.idx, call.size)
          IN  /\ call.dst = read.dst
              /\ (call.ret # read.ret) => call.size > Capacity(res, call.idx)
              /\ (/\ wrote.op = "memcpy"
                   /\ wrote.ret = 0
                   /\ wrote.idx = call.idx
                   /\ wrote.size = call.size)
                     => /\ call.ret = 0
                        /\ \A i \in 1..call.size : call.dst[i] = SrcByte(i - 1)

\* C23 (as claimed): when the slices hold at least size_Y + size_UV bytes
\* from plane_offsets[0] on, virtio_video_memcpy_NV12 returns 0 and the
\* target holds the bytes of Y followed at once by the bytes of UV, starting
\* at plane_offsets[0].
C23_NV12Contiguous ==
    (call.op = "NV12" /\ call.size <= Capacity(res, 0))
       => /\ call.ret = 0
          /\ \A t \in 1..call.args.size_Y :
                mem[1][res.plane_offsets[1] + t] = SrcByte(call.args.Y + t - 1)
          /\ \A t \in 1..call.args.size_UV :
                mem[1][res.plane_offsets[1] + call.args.size_Y + t]
                   = SrcByte(call.args.UV + t - 1)

\* C25 (as claimed): events reach the guest in the order they were
\* reported: tasks run in the order of the reports, so every entry of the
\* backlog was reported before the event of the running task, and the task
\* transmits its event only when the backlog is empty.
C25_ReportOrder ==
    [][(Len(event_sent') > Len(event_sent)) => event_queue = <<>>]_vars

\* C26: when the task of a reported event has run, the event has been
\* transmitted in a reply slot, or waits in the backlog, or was abandoned
\* because a usable slot did not take the response, and never two of
\* these; and when the slot the task popped is unusable, the slot is
\* detached and freed, never pushed, and the event is at the tail of the
\* backlog.
C26_NoEventLost ==
    [][(bh # <<>> /\ Head(bh).kind = "event" /\ bh' = Tail(bh))
          => LET ev == [event_type |-> Head(bh).event_type,
                        stream_id |-> Head(bh).stream_id]
                 transmitted == /\ event_sent' = event_sent \o <<ev>>
                                /\ event_queue' = event_queue
                                /\ event_elem'.pushed = 1
                 waiting     == /\ event_queue' = event_queue \o <<ev>>
                                /\ event_sent' = event_sent
                                /\ event_elem'.pushed = 0
                 abandoned   == /\ event_queue' = event_queue
                                /\ event_sent' = event_sent
                                /\ event_vq # <<>> /\ Head(event_vq) = "ok"
                                /\ event_elem'.pushed = 0
             IN  /\ transmitted \/ waiting \/ abandoned
                 /\ (event_vq # <<>> /\ Head(event_vq) = "bad")
                       => /\ waiting
                          /\ event_vq' = Tail(event_vq)
                          /\ event_elem' = [slot |-> "bad", pushed |-> 0,
                                             detached |-> 1, freed |-> 1]]_vars

C26_Witness ==
    /\ event_elem.slot = "bad"
    /\ event_elem.detached = 1
    /\ event_elem.freed = 1
    /\ event_queue # <<>>
    /\ event_sent # <<>>

\* C27: the call of inflight_cmd_done / inflight_cmd_cancel copies command
\* type, reply element and stream id of the slot into the task it schedules
\* and leaves the slot with cmd_type 0 in the same step; the task, when it
\* runs, changes no slot, transmits at most a response for the element and
\* stream id it was given, and touches no other reply element, whatever
\* command has occupied the slot since the call.
C27_CapturedAtCall ==
    [][/\ (/\ Len(bh') = Len(bh) + 1
            /\ bh'[Len(bh')].kind \in {"cmd_done", "cmd_cancel"})
          => LET task == bh'[Len(bh')]
             IN  /\ task.cmd = inflight_cmd[task.stream_id]
                 /\ inflight_cmd'[task.stream_id].cmd_type = NoCmd
                 /\ cmd_vq' = cmd_vq
       /\ (/\ bh # <<>>
            /\ Head(bh).kind \in {"cmd_done", "cmd_cancel"}
            /\ bh' = Tail(bh))
          => /\ inflight_cmd' = inflight_cmd
             /\ \/ cmd_vq' = cmd_vq
                \/ /\ Len(cmd_vq') = Len(cmd_vq) + 1
                   /\ SubSeq(cmd_vq', 1, Len(cmd_vq)) = cmd_vq
                   /\ cmd_vq'[Len(cmd_vq')].elem = Head(bh).cmd.elem
                   /\ cmd_vq'[Len(cmd_vq')].stream_id = Head(bh).stream_id
             /\ \A e \in DOMAIN elems :
                   e # Head(bh).cmd.elem => elems'[e] = elems[e]]_vars

\* a task is pending while a newer command occupies the slot of its stream
C27_Witness ==
    /\ bh # <<>>
    /\ Head(bh).kind \in {"cmd_done", "cmd_cancel"}
    /\ Head(bh).cmd.cmd_type # NoCmd
    /\ inflight_cmd[Head(bh).stream_id].cmd_type # NoCmd
    /\ inflight_cmd[Head(bh).stream_id].elem # Head(bh).cmd.elem
    /\ elems[Head(bh).cmd.elem].freed = 0

\* C7 (as claimed): once every scheduled task has run, the device's
\* reference count is what it was before any task was scheduled (the
\* owner's reference, if still held).
C7_ReferencesReleased ==
    (bh = <<>> /\ ~crashed) => (refcnt = owner)

\* C8: while tasks are scheduled and not yet run, the device holds one
\* reference for each of them beside the owner's, so the owner dropping
\* its reference leaves the count positive.
C8_TaskHoldsReference ==
    /\ refcnt >= owner + Len(bh)
    /\ (bh # <<>>) => (refcnt >= 1)

C8_Witness ==
    /\ owner = 0
    /\ Len(bh) = 2
    /\ \E i \in 1..Len(bh) : bh[i].kind = "event"
    /\ \E i \in 1..Len(bh) : bh[i].kind \in {"cmd_done", "cmd_cancel"}
    /\ refcnt = 2

====
